---------------------------- MODULE Spec2Model ----------------------------
(***************************************************************************)
(* A model of imgor: grouping of photo files and planning of the renames.  *)
(*                                                                         *)
(*   grouping.rs  GroupByFn (the consecutive grouper)                      *)
(*   paths.rs     common_prefix                                            *)
(*   photo.rs     classify_files_impl, group_photo_files_impl              *)
(*   main.rs      make_new_filename, create_move_commands,                 *)
(*                group_files_by_date, run                                 *)
(*                                                                         *)
(* A string is a sequence of one-character strings, a path the sequence of *)
(* its normal components (each a string).  Option<T> is <<>> for None and  *)
(* <<v>> for Some(v).                                                      *)
(***************************************************************************)
EXTENDS Integers, Sequences, FiniteSets, TLC

VARIABLES
    \* grouping.rs: struct GroupByFn, and what its caller has seen of it
    data, compare, idx_first, slices, exhausted,
    \* photo.rs: the argument and the outcome of group_photo_files_impl
    files, photos,
    \* main.rs: the arguments and the result of make_new_filename
    file_name, old, new, new_name,
    \* main.rs: the arguments and the outcome of create_move_commands
    photo, new_stem, out_dir, plan,
    \* main.rs: group_files_by_date and the command loop of run
    in_dir, dated, cmds, status, pos,
    \* paths.rs: the arguments and the result of common_prefix
    p1, p2, common

gvars == <<data, compare, idx_first, slices, exhausted>>
pvars == <<files, photos>>
nvars == <<file_name, old, new, new_name>>
cvars == <<photo, new_stem, out_dir, plan>>
avars == <<in_dir, dated, cmds, status, pos>>
xvars == <<p1, p2, common>>
vars == <<gvars, pvars, nvars, cvars, avars, xvars>>

None == <<>>
Some(v) == <<v>>

\* how a call ends: Result::Ok, Result::Err, or a panic (expect, unwrap,
\* assert!, panic!), which unwinds out of main and ends the process
Ok(v) == [tag |-> "Ok", val |-> v]
Err(e) == [tag |-> "Err", val |-> <<e>>]
Panic(m) == [tag |-> "panic", val |-> <<m>>]

\* the longest sequence a specification draws for GroupByFn
MaxLen == 3
\* the most classified files a specification hands to group_photo_files_impl
MaxFiles == 3
\* the longest file name a specification hands to make_new_filename
MaxName == 4
\* the most derived files of the Photo handed to create_move_commands
MaxDerived == 2
\* the most entries of the input directory of group_files_by_date
MaxEntries == 3
\* the most components, after the root, of a path handed to common_prefix
MaxDepth == 3

Range(s) == {s[i] : i \in 1..Len(s)}

SeqsUpTo(S, n) == UNION {[1..k -> S] : k \in 0..n}

RECURSIVE Concat(_)
Concat(ss) == IF ss = <<>> THEN <<>> ELSE Head(ss) \o Concat(Tail(ss))

-----------------------------------------------------------------------------
(* Strings and paths (std::str, std::path)                                 *)

\* the characters of the model and their bytes
ByteOf ==
    "-" :> 45 @@ "." :> 46 @@ "0" :> 48 @@ "1" :> 49 @@ "2" :> 50 @@ "3" :> 51 @@
    "4" :> 52 @@ "5" :> 53 @@ "6" :> 54 @@ "7" :> 55 @@ "8" :> 56 @@ "9" :> 57 @@
    "A" :> 65 @@ "B" :> 66 @@ "C" :> 67 @@ "D" :> 68 @@ "E" :> 69 @@ "F" :> 70 @@
    "G" :> 71 @@ "H" :> 72 @@ "I" :> 73 @@ "J" :> 74 @@ "K" :> 75 @@ "L" :> 76 @@
    "M" :> 77 @@ "N" :> 78 @@ "O" :> 79 @@ "P" :> 80 @@ "Q" :> 81 @@ "R" :> 82 @@
    "S" :> 83 @@ "T" :> 84 @@ "U" :> 85 @@ "V" :> 86 @@ "W" :> 87 @@ "X" :> 88 @@
    "Y" :> 89 @@ "Z" :> 90 @@ "_" :> 95 @@ "a" :> 97 @@ "b" :> 98 @@ "c" :> 99 @@
    "d" :> 100 @@ "e" :> 101 @@ "f" :> 102 @@ "g" :> 103 @@ "h" :> 104 @@ "i" :> 105 @@
    "j" :> 106 @@ "k" :> 107 @@ "l" :> 108 @@ "m" :> 109 @@ "n" :> 110 @@ "o" :> 111 @@
    "p" :> 112 @@ "q" :> 113 @@ "r" :> 114 @@ "s" :> 115 @@ "t" :> 116 @@ "u" :> 117 @@
    "v" :> 118 @@ "w" :> 119 @@ "x" :> 120 @@ "y" :> 121 @@ "z" :> 122

Byte(c) == ByteOf[c]

\* char::to_lowercase on the model's characters
LowerOf ==
    "-" :> "-" @@ "." :> "." @@ "0" :> "0" @@ "1" :> "1" @@ "2" :> "2" @@ "3" :> "3" @@
    "4" :> "4" @@ "5" :> "5" @@ "6" :> "6" @@ "7" :> "7" @@ "8" :> "8" @@ "9" :> "9" @@
    "A" :> "a" @@ "B" :> "b" @@ "C" :> "c" @@ "D" :> "d" @@ "E" :> "e" @@ "F" :> "f" @@
    "G" :> "g" @@ "H" :> "h" @@ "I" :> "i" @@ "J" :> "j" @@ "K" :> "k" @@ "L" :> "l" @@
    "M" :> "m" @@ "N" :> "n" @@ "O" :> "o" @@ "P" :> "p" @@ "Q" :> "q" @@ "R" :> "r" @@
    "S" :> "s" @@ "T" :> "t" @@ "U" :> "u" @@ "V" :> "v" @@ "W" :> "w" @@ "X" :> "x" @@
    "Y" :> "y" @@ "Z" :> "z" @@ "_" :> "_" @@ "a" :> "a" @@ "b" :> "b" @@ "c" :> "c" @@
    "d" :> "d" @@ "e" :> "e" @@ "f" :> "f" @@ "g" :> "g" @@ "h" :> "h" @@ "i" :> "i" @@
    "j" :> "j" @@ "k" :> "k" @@ "l" :> "l" @@ "m" :> "m" @@ "n" :> "n" @@ "o" :> "o" @@
    "p" :> "p" @@ "q" :> "q" @@ "r" :> "r" @@ "s" :> "s" @@ "t" :> "t" @@ "u" :> "u" @@
    "v" :> "v" @@ "w" :> "w" @@ "x" :> "x" @@ "y" :> "y" @@ "z" :> "z"

LowerChar(c) == LowerOf[c]

to_lowercase(s) == [i \in 1..Len(s) |-> LowerChar(s[i])]

\* Ord::cmp of two byte strings: "Less", "Equal" or "Greater"
RECURSIVE StrCmp(_, _)
StrCmp(a, b) ==
    IF a = <<>> /\ b = <<>> THEN "Equal"
    ELSE IF a = <<>> THEN "Less"
    ELSE IF b = <<>> THEN "Greater"
    ELSE IF Byte(Head(a)) < Byte(Head(b)) THEN "Less"
    ELSE IF Byte(Head(a)) > Byte(Head(b)) THEN "Greater"
    ELSE StrCmp(Tail(a), Tail(b))

\* Path::cmp: the components compared one by one
RECURSIVE PathCmp(_, _)
PathCmp(p, q) ==
    IF p = <<>> /\ q = <<>> THEN "Equal"
    ELSE IF p = <<>> THEN "Less"
    ELSE IF q = <<>> THEN "Greater"
    ELSE IF StrCmp(Head(p), Head(q)) # "Equal" THEN StrCmp(Head(p), Head(q))
    ELSE PathCmp(Tail(p), Tail(q))

\* the component "..", which is Component::ParentDir and no file name
ParentDir == <<".", ".">>

\* Path::file_name: the last component when it is a normal one
path_file_name(p) ==
    IF p = <<>> \/ p[Len(p)] = ParentDir THEN None ELSE Some(p[Len(p)])

\* the places (from 1) of the dots of a string
dots(s) == {i \in 1..Len(s) : s[i] = "."}

\* std::path split_file_at_dot: <<before, after>> of the last ".", both
\* Options; a name without "." or with its only "." in front has no `after`
split_file_at_dot(file) ==
    IF file = ParentDir THEN <<Some(file), None>>
    ELSE IF dots(file) = {} THEN <<None, Some(file)>>
    ELSE LET d == CHOOSE i \in dots(file) : \A j \in dots(file) : j <= i
         IN  IF d = 1 THEN <<Some(file), None>>
             ELSE <<Some(SubSeq(file, 1, d - 1)), Some(SubSeq(file, d + 1, Len(file)))>>

\* Path::file_stem: before.or(after)
path_file_stem(p) ==
    IF path_file_name(p) = None THEN None
    ELSE LET ba == split_file_at_dot(path_file_name(p)[1])
         IN  IF ba[1] # None THEN ba[1] ELSE ba[2]

\* Path::extension: before.and(after)
path_extension(p) ==
    IF path_file_name(p) = None THEN None
    ELSE LET ba == split_file_at_dot(path_file_name(p)[1])
         IN  IF ba[1] # None THEN ba[2] ELSE None

\* Path::join of a directory and a name without separator; joining the
\* empty name adds no component
join(dir, name) == IF name = <<>> THEN dir ELSE Append(dir, name)

\* slice::sort_by, a stable sort: ord[<<a, b>>] is the closure's answer.
\* insert_sorted puts x behind every element that is not Greater than it.
RECURSIVE insert_sorted(_, _, _)
insert_sorted(s, x, ord) ==
    IF s = <<>> THEN <<x>>
    ELSE IF ord[<<Head(s), x>>] = "Greater" THEN <<x>> \o s
    ELSE <<Head(s)>> \o insert_sorted(Tail(s), x, ord)

RECURSIVE sort_by(_, _)
sort_by(s, ord) ==
    IF s = <<>> THEN <<>>
    ELSE insert_sorted(sort_by(SubSeq(s, 1, Len(s) - 1), ord), s[Len(s)], ord)

-----------------------------------------------------------------------------
(* grouping.rs                                                             *)

\* the values and the predicates a GroupByFn is drawn over
Elems == {"a", "b", "c"}
Relations == SUBSET (Elems \X Elems)

\* a grouper that tests each element against its predecessor, not against
\* the first element of the group
RECURSIVE scan_group_prev(_, _, _, _)
scan_group_prev(d, cmp, first, i) ==
    IF i >= Len(d) THEN Len(d)
    ELSE IF <<d[i + 1], d[i]>> \notin cmp THEN i
    ELSE scan_group_prev(d, cmp, first, i + 1)

\* GroupByFn::next, the for loop (lines 53-61): the first i after first whose
\* element compare(current, first) rejects, data.len() when there is none.
\* Indices are the source's (from 0); s[i + 1] is the source's data[i].
RECURSIVE scan_group(_, _, _, _)
scan_group(d, cmp, first, i) ==
    IF i >= Len(d) THEN Len(d)
    ELSE IF <<d[i + 1], d[first + 1]>> \notin cmp THEN i
    ELSE scan_group(d, cmp, first, i + 1)

\* a grouper whose loop starts at idx_first instead of idx_first + 1
group_end_from_first(d, cmp, first) == scan_group(d, cmp, first, first)

\* the index at which the group starting at first ends
group_end(d, cmp, first) == scan_group(d, cmp, first, first + 1)

\* GroupByFn::new
group_by_fn(d, cmp) == [data |-> d, idx_first |-> 0, compare |-> cmp]

\* GroupByFn::next: the slice data[lo..hi] is kept as its bounds
GroupByFnNext ==
    /\ IF Len(data) = 0 \/ idx_first >= Len(data)
       THEN /\ exhausted' = TRUE
            /\ UNCHANGED <<idx_first, slices>>
       ELSE /\ idx_first' = group_end(data, compare, idx_first)
            /\ slices' = Append(slices, [lo |-> idx_first,
                                         hi |-> group_end(data, compare, idx_first)])
            /\ UNCHANGED exhausted
    /\ UNCHANGED <<data, compare>>
    /\ UNCHANGED <<pvars, nvars, cvars, avars, xvars>>

\* every group of the iterator, as the `for group in groups` loop collects them
RECURSIVE groups_from(_, _, _)
groups_from(d, cmp, first) ==
    IF Len(d) = 0 \/ first >= Len(d) THEN <<>>
    ELSE LET i == group_end(d, cmp, first)
         IN  <<SubSeq(d, first + 1, i)>> \o groups_from(d, cmp, i)

\* the elements of a yielded slice
Items(s) == SubSeq(data, s.lo + 1, s.hi)

-----------------------------------------------------------------------------
(* photo.rs                                                                *)

\* struct File
File(p, d) == [path |-> p, derived_from |-> d]

is_source(f) == f.derived_from = None

\* Photo::new
PhotoNew(file) == [source |-> file, derived |-> <<>>]

\* Photo::add_derived
add_derived(ph, file) == [ph EXCEPT !.derived = Append(@, file)]

\* HashMap::insert: a map is a function on the set of its keys
insert(h, k, v) == [x \in DOMAIN h \cup {k} |-> IF x = k THEN v ELSE h[x]]

\* group_photo_files_impl, the first loop (lines 138-143): a Photo for every
\* file that is a source, keyed by its path
RECURSIVE add_sources(_, _)
add_sources(h, fs) ==
    IF fs = <<>> THEN h
    ELSE add_sources(IF is_source(Head(fs))
                     THEN insert(h, Head(fs).path, PhotoNew(Head(fs).path))
                     ELSE h,
                     Tail(fs))

\* group_photo_files_impl, the second loop (lines 146-154): every derived
\* file is pushed to the Photo of the path it is derived from; expect panics
\* when the map has no such key
RECURSIVE add_derived_files(_, _)
add_derived_files(h, fs) ==
    IF fs = <<>> THEN Ok(h)
    ELSE IF is_source(Head(fs)) THEN add_derived_files(h, Tail(fs))
    ELSE LET derived_from == Head(fs).derived_from[1]
         IN  IF derived_from \notin DOMAIN h
             THEN Panic("referenced image does not exist")
             ELSE add_derived_files(
                      [h EXCEPT ![derived_from] = add_derived(@, Head(fs).path)],
                      Tail(fs))

\* every order of the elements of a set
RECURSIVE Orders(_)
Orders(S) ==
    IF S = {} THEN {<<>>}
    ELSE UNION {{<<x>> \o q : q \in Orders(S \ {x})} : x \in S}

\* HashMap::values: the values in an order the map chooses
Enumerations(h) == {[i \in 1..Len(ks) |-> h[ks[i]]] : ks \in Orders(DOMAIN h)}

\* a result that is left in the order HashMap::values gave
unsorted_by_source(result) == result

\* result.sort_by(|a, b| a.source.cmp(&b.source))
sort_by_source(result) ==
    sort_by(result, [ab \in Range(result) \X Range(result) |->
                        PathCmp(ab[1].source, ab[2].source)])

\* the outcomes of group_photo_files_impl, one for every order of h.values()
group_photo_files_impl(fs) ==
    LET filled == add_derived_files(add_sources(<<>>, fs), fs)
    IN  IF filled.tag = "panic" THEN {filled}
        ELSE {Ok(sort_by_source(vals)) : vals \in Enumerations(filled.val)}

\* a call of group_photo_files_impl
GroupPhotoFilesImpl ==
    /\ photos = None
    /\ \E r \in group_photo_files_impl(files) : photos' = r
    /\ UNCHANGED files
    /\ UNCHANGED <<gvars, nvars, cvars, avars, xvars>>

-----------------------------------------------------------------------------
(* main.rs: make_new_filename                                              *)

\* str::find("."): the index (from 0) of the first ".", None without one
RECURSIVE find_from(_, _, _)
find_from(s, c, i) ==
    IF i >= Len(s) THEN None
    ELSE IF s[i + 1] = c THEN Some(i)
    ELSE find_from(s, c, i + 1)

\* str::rfind("."): the index of the last "."
RECURSIVE rfind_from(_, _, _)
rfind_from(s, c, i) ==
    IF i < 0 THEN None
    ELSE IF s[i + 1] = c THEN Some(i)
    ELSE rfind_from(s, c, i - 1)

last_dot(s) == rfind_from(s, ".", Len(s) - 1)

first_dot(s) == find_from(s, ".", 0)

\* str::split_at
split_at(s, index) == <<SubSeq(s, 1, index), SubSeq(s, index + 1, Len(s))>>

\* str::replace with a non-empty pattern: the matches of `from` are searched
\* from the left and do not overlap; i is the searcher's position, last_end
\* the end of the last match, acc the result so far
RECURSIVE replace_loop(_, _, _, _, _, _)
replace_loop(s, from, to, i, last_end, acc) ==
    IF i + Len(from) > Len(s) THEN acc \o SubSeq(s, last_end + 1, Len(s))
    ELSE IF SubSeq(s, i + 1, i + Len(from)) = from
         THEN replace_loop(s, from, to, i + Len(from), i + Len(from),
                           acc \o SubSeq(s, last_end + 1, i) \o to)
         ELSE replace_loop(s, from, to, i + 1, last_end, acc)

\* str::replace; the empty pattern matches at every character boundary
replace(s, from, to) ==
    IF from = <<>>
    THEN Concat([k \in 1..Len(s) |-> to \o <<s[k]>>]) \o to
    ELSE replace_loop(s, from, to, 0, 0, <<>>)

make_new_filename(name, old_, new_) ==
    IF first_dot(name) # None
    THEN LET parts == split_at(name, first_dot(name)[1])
             new_stem_ == replace(parts[1], old_, new_)
             new_ext == to_lowercase(parts[2])
         IN  new_stem_ \o new_ext
    ELSE replace(name, old_, new_)

\* a call of make_new_filename
MakeNewFilename ==
    /\ new_name = None
    /\ new_name' = Some(make_new_filename(file_name, old, new))
    /\ UNCHANGED <<file_name, old, new>>
    /\ UNCHANGED <<gvars, pvars, cvars, avars, xvars>>

-----------------------------------------------------------------------------
(* main.rs: enum Cmd and create_move_commands                              *)

CreateDirectory(dir) == [op |-> "CreateDirectory", a |-> dir, b |-> <<>>]
Rename(src, dest) == [op |-> "Rename", a |-> src, b |-> dest]
AdjustRef(file, referenced_image) ==
    [op |-> "AdjustRef", a |-> file, b |-> referenced_image]

\* a planner that adjusts the reference before it renames the derived file
adjust_then_rename(derived, new_derived_file, new_source_file) ==
    << AdjustRef(new_derived_file, new_source_file),
       Rename(derived, new_derived_file) >>

\* the two commands pushed for a derived file (lines 131-134)
rename_then_adjust(derived, new_derived_file, new_source_file) ==
    << Rename(derived, new_derived_file),
       AdjustRef(new_derived_file, new_source_file) >>

\* create_move_commands, the loop over photo.derived (lines 122-135);
\* expect("need filename") panics on a path without file name
RECURSIVE derived_commands(_, _, _, _, _, _)
derived_commands(derived, source_stem, new_stem_, out_dir_, new_source_file, acc) ==
    IF derived = <<>> THEN Ok(acc)
    ELSE IF path_file_name(Head(derived)) = None THEN Panic("need filename")
    ELSE LET derived_file_name == path_file_name(Head(derived))[1]
             new_derived_file ==
                 join(out_dir_, make_new_filename(derived_file_name, source_stem, new_stem_))
         IN  derived_commands(Tail(derived), source_stem, new_stem_, out_dir_,
                 new_source_file,
                 acc \o rename_then_adjust(Head(derived), new_derived_file, new_source_file))

\* create_move_commands; every string of the model is valid UTF-8, so the
\* PathNotUtf8 errors do not arise
create_move_commands(ph, new_stem_, out_dir_) ==
    IF path_file_stem(ph.source) = None THEN Err("file has no basename")
    ELSE LET source_stem == path_file_stem(ph.source)[1]
             source_file_name == path_file_name(ph.source)[1]
             new_source == make_new_filename(source_file_name, source_stem, new_stem_)
             new_source_file == join(out_dir_, new_source)
         IN  derived_commands(ph.derived, source_stem, new_stem_, out_dir_,
                 new_source_file, <<Rename(ph.source, new_source_file)>>)

\* a call of create_move_commands
CreateMoveCommands ==
    /\ plan = None
    /\ photo # None
    /\ plan' = Some(create_move_commands(photo[1], new_stem, out_dir))
    /\ UNCHANGED <<photo, new_stem, out_dir>>
    /\ UNCHANGED <<gvars, pvars, nvars, avars, xvars>>

-----------------------------------------------------------------------------
(* paths.rs                                                                *)

\* common_prefix, the loop (lines 17-30): n components are common so far
RECURSIVE common_length(_, _, _)
common_length(path1, path2, n) ==
    IF n < Len(path1) /\ n < Len(path2) /\ path1[n + 1] = path2[n + 1]
    THEN common_length(path1, path2, n + 1)
    ELSE n

\* a walk that leaves the last common component to the suffixes
common_prefix_short(path1, path2) ==
    LET m == common_length(path1, path2, 0)
        n == IF m = 0 THEN 0 ELSE m - 1
    IN  [prefix |-> SubSeq(path1, 1, n),
         suffix1 |-> SubSeq(path1, n + 1, Len(path1)),
         suffix2 |-> SubSeq(path2, n + 1, Len(path2))]

\* common_prefix, after the loop (lines 31-39): what was pushed is the
\* prefix, what the two iterators still hold are the suffixes
common_prefix(path1, path2) ==
    LET n == common_length(path1, path2, 0)
    IN  [prefix |-> SubSeq(path1, 1, n),
         suffix1 |-> SubSeq(path1, n + 1, Len(path1)),
         suffix2 |-> SubSeq(path2, n + 1, Len(path2))]

\* one call common_prefix(p1, p2)
CommonPrefix ==
    /\ common = None
    /\ common' = Some(common_prefix(p1, p2))
    /\ UNCHANGED <<p1, p2>>
    /\ UNCHANGED <<gvars, pvars, nvars, cvars, avars>>

-----------------------------------------------------------------------------
(* photo.rs: classify_files; metadata.rs: extract_datetime                 *)

\* the directory of a run: its path, the names of its files and, per file,
\* the Xmp.xmpMM.DerivedFrom tag and the capture time its metadata holds
\* (None: no such tag, or no readable metadata)
Directory(path, entries, tag, taken) ==
    [path |-> path, entries |-> entries, tag |-> tag, taken |-> taken]

MEDIA_EXTENSIONS == { <<"c", "r", "2">>, <<"j", "p", "g">>, <<"j", "p", "e", "g">>,
                      <<"m", "o", "v">>, <<"x", "m", "p">> }
REXIV2_EXTENSIONS == { <<"j", "p", "g">>, <<"c", "r", "2">> }
EXIFTOOL_EXTENSIONS == { <<"m", "o", "v">> }

\* the least path of a non-empty set, by Path::cmp
LeastPath(S) == CHOOSE x \in S : \A y \in S : PathCmp(x, y) # "Greater"

\* paths.sort() of the paths read_dir gave, in whatever order it gave them
RECURSIVE sorted_paths(_)
sorted_paths(S) ==
    IF S = {} THEN <<>>
    ELSE <<LeastPath(S)>> \o sorted_paths(S \ {LeastPath(S)})

\* collect_files: every entry of the directory is a file
collect_files(dir) == sorted_paths({join(dir.path, n) : n \in dir.entries})

\* classify_files_impl, the filter (lines 45-59)
\* a filter that compares the extension as it is written
is_media_as_written(path) ==
    /\ path_extension(path) # None
    /\ path_extension(path)[1] \in MEDIA_EXTENSIONS

\* classify_files_impl, the filter (lines 45-59): the lower-cased extension
\* is one of MEDIA_EXTENSIONS
is_media(path) ==
    /\ path_extension(path) # None
    /\ to_lowercase(path_extension(path)[1]) \in MEDIA_EXTENSIONS

\* Metadata::derived_from as classify_files calls it: the tag joined to the
\* directory of the file
derived_from_of(dir, path) ==
    IF dir.tag[path[Len(path)]] = None THEN None
    ELSE Some(join(SubSeq(path, 1, Len(path) - 1), dir.tag[path[Len(path)]][1]))

\* classify_files_impl with the lookup of classify_files
RECURSIVE classify_files(_, _)
classify_files(paths, dir) ==
    IF paths = <<>> THEN <<>>
    ELSE (IF is_media(Head(paths))
          THEN <<File(Head(paths), derived_from_of(dir, Head(paths)))>>
          ELSE <<>>)
         \o classify_files(Tail(paths), dir)

\* extract_datetime: the metadata's time for jpg and cr2, exiftool's for mov
\* (whose output is unwrapped, so a mov without time panics), panic!() for
\* every other extension
extract_datetime(dir, path) ==
    LET ext == to_lowercase(path_extension(path)[1])
        taken == dir.taken[path[Len(path)]]
    IN  IF ext \in REXIV2_EXTENSIONS THEN Ok(taken)
        ELSE IF ext \in EXIFTOOL_EXTENSIONS
             THEN IF taken = None THEN Panic("unwrap on None") ELSE Ok(taken)
        ELSE Panic("explicit panic")

\* date_photo_files: the AnnotatedPhoto of every Photo
RECURSIVE date_photo_files(_, _, _)
date_photo_files(dir, fs, acc) ==
    IF fs = <<>> THEN Ok(acc)
    ELSE LET meta == extract_datetime(dir, Head(fs).source)
         IN  IF meta.tag = "panic" THEN meta
             ELSE date_photo_files(dir, Tail(fs),
                      Append(acc, [photo |-> Head(fs),
                                   meta |-> [datetime_original |-> meta.val]]))

-----------------------------------------------------------------------------
(* main.rs: group_files_by_date and run                                    *)

\* a capture time is <<day, second>>; DateTime::cmp
DateTimeCmp(d1, d2) ==
    IF d1[1] < d2[1] THEN "Less"
    ELSE IF d1[1] > d2[1] THEN "Greater"
    ELSE IF d1[2] < d2[2] THEN "Less"
    ELSE IF d1[2] > d2[2] THEN "Greater"
    ELSE "Equal"

\* DateTime::date
date(d) == d[1]

\* an order that puts the photos without time behind the dated ones
date_order_none_last(a, b) ==
    LET x == a.meta.datetime_original
        y == b.meta.datetime_original
    IN  IF x # None /\ y # None THEN DateTimeCmp(x[1], y[1])
        ELSE IF x # None THEN "Less"
        ELSE IF y # None THEN "Greater"
        ELSE "Equal"

\* the closure of dated.sort_by (lines 166-171)
date_order(a, b) ==
    LET x == a.meta.datetime_original
        y == b.meta.datetime_original
    IN  IF x # None /\ y # None THEN DateTimeCmp(x[1], y[1])
        ELSE IF x # None THEN "Greater"
        ELSE IF y # None THEN "Less"
        ELSE "Equal"

\* a grouping by equal capture time instead of equal date
same_time(a, b) ==
    LET x == a.meta.datetime_original
        y == b.meta.datetime_original
    IN  IF x # None /\ y # None THEN x[1] = y[1]
        ELSE x = None /\ y = None

\* the closure of group_by_fn (lines 176-183)
same_date(a, b) ==
    LET x == a.meta.datetime_original
        y == b.meta.datetime_original
    IN  IF x # None /\ y # None THEN date(x[1]) = date(y[1])
        ELSE x = None /\ y = None

Digit(n) == <<"0", "1", "2", "3", "4", "5", "6", "7", "8", "9">>[n + 1]

RECURSIVE Decimal(_)
Decimal(n) == IF n < 10 THEN <<Digit(n)>> ELSE Decimal(n \div 10) \o <<Digit(n % 10)>>

\* format!("{:04}", i): at least four digits, zeros in front
RECURSIVE ZeroPad(_, _)
ZeroPad(s, width) == IF Len(s) >= width THEN s ELSE ZeroPad(<<"0">> \o s, width)

\* d.date().format("%Y-%m-%d"): the days of the model are those of 2017-01
format_date(day) ==
    <<"2", "0", "1", "7", "-", "0", "1", "-">> \o ZeroPad(Decimal(day), 2)

no_date == <<"n", "o", "-", "d", "a", "t", "e">>

\* group_name of a group (lines 189-192)
group_name_of(group) ==
    IF group[1].meta.datetime_original # None
    THEN format_date(date(group[1].meta.datetime_original[1]))
    ELSE no_date

\* format!("{:04}_{}", i, group_name)
stem_of(i, group_name) == ZeroPad(Decimal(i), 4) \o <<"_">> \o group_name

\* the loop over a group (lines 197-201); ? returns the first Err
RECURSIVE group_commands(_, _, _, _, _)
group_commands(group, i, group_name, group_dir, acc) ==
    IF i >= Len(group) THEN Ok(acc)
    ELSE LET c == create_move_commands(group[i + 1].photo, stem_of(i, group_name), group_dir)
         IN  IF c.tag # "Ok" THEN c
             ELSE group_commands(group, i + 1, group_name, group_dir, acc \o c.val)

\* the loop over the groups (lines 188-202)
RECURSIVE all_commands(_, _, _)
all_commands(groups, out_dir_, acc) ==
    IF groups = <<>> THEN Ok(acc)
    ELSE LET group_name == group_name_of(Head(groups))
             group_dir == join(out_dir_, group_name)
             c == group_commands(Head(groups), 0, group_name, group_dir,
                                 Append(acc, CreateDirectory(join(out_dir_, group_name))))
         IN  IF c.tag # "Ok" THEN c
             ELSE all_commands(Tail(groups), out_dir_, c.val)

\* group_files_by_date from the Photos on: the outcome, and the sorted
\* vector `dated` beside it
plan_photos(dir, out_dir_, grouped) ==
    IF grouped.tag # "Ok" THEN [outcome |-> grouped, dated |-> <<>>]
    ELSE LET annotated == date_photo_files(dir, grouped.val, <<>>)
         IN  IF annotated.tag # "Ok" THEN [outcome |-> annotated, dated |-> <<>>]
             ELSE LET d == annotated.val
                      sorted == sort_by(d, [ab \in Range(d) \X Range(d) |->
                                               date_order(ab[1], ab[2])])
                      groups == groups_from(sorted,
                                    {ab \in Range(d) \X Range(d) : same_date(ab[1], ab[2])}, 0)
                  IN  [outcome |-> all_commands(groups, out_dir_, <<>>), dated |-> sorted]

\* group_files_by_date: one outcome for every order of HashMap::values
group_files_by_date(dir, out_dir_) ==
    {plan_photos(dir, out_dir_, grouped) :
        grouped \in group_photo_files_impl(classify_files(collect_files(dir), dir))}

\* run, line 235: the plan of the directory, or the end of the process
GroupFilesByDate ==
    /\ status = "start"
    /\ \E r \in group_files_by_date(in_dir, out_dir) :
           /\ dated' = r.dated
           /\ cmds' = IF r.outcome.tag = "Ok" THEN r.outcome.val ELSE <<>>
           /\ status' = CASE r.outcome.tag = "Ok" -> "planned"
                           [] r.outcome.tag = "Err" -> "error"
                           [] OTHER -> "panic"
    /\ UNCHANGED <<in_dir, pos, out_dir>>
    /\ UNCHANGED <<gvars, pvars, nvars, photo, new_stem, plan, xvars>>

\* the assertions on an AdjustRef (lines 246-248 and 266-268)
adjust_ref_asserts(cmd) ==
    LET c == common_prefix(cmd.a, cmd.b)
    IN  Len(c.suffix1) = 1 /\ Len(c.suffix2) = 1

\* the command loop (lines 237-252, 254-274): the number of commands gone
\* through before an assertion fails
RECURSIVE run_commands(_, _)
run_commands(cs, n) ==
    IF n >= Len(cs) THEN n
    ELSE IF cs[n + 1].op = "AdjustRef" /\ ~adjust_ref_asserts(cs[n + 1]) THEN n
    ELSE run_commands(cs, n + 1)

\* run, the loop over the commands of the plan
RunCommands ==
    /\ status = "planned"
    /\ pos' = run_commands(cmds, 0)
    /\ status' = IF run_commands(cmds, 0) < Len(cmds) THEN "assertion failed" ELSE "done"
    /\ UNCHANGED <<in_dir, dated, cmds, out_dir>>
    /\ UNCHANGED <<gvars, pvars, nvars, photo, new_stem, plan, xvars>>

-----------------------------------------------------------------------------
(* The idle values of the variables a specification does not use           *)

IdleG == /\ data = <<>> /\ compare = {} /\ idx_first = 0
         /\ slices = <<>> /\ exhausted = FALSE
IdleP == /\ files = <<>> /\ photos = None
IdleN == /\ file_name = <<>> /\ old = <<>> /\ new = <<>> /\ new_name = None
IdleC == /\ photo = None /\ new_stem = <<>> /\ out_dir = <<>> /\ plan = None
IdleA == /\ in_dir = <<>> /\ dated = <<>> /\ cmds = <<>>
         /\ status = "idle" /\ pos = 0
IdleX == /\ p1 = <<>> /\ p2 = <<>> /\ common = None

-----------------------------------------------------------------------------
(* The consecutive grouper on every sequence and every predicate           *)

InitGroup ==
    /\ data \in SeqsUpTo(Elems, MaxLen)
    /\ compare \in Relations
    /\ idx_first = group_by_fn(data, compare).idx_first
    /\ slices = <<>>
    /\ exhausted = FALSE
    /\ IdleP /\ IdleN /\ IdleC /\ IdleA /\ IdleX

NextGroup == GroupByFnNext

SpecGroup == InitGroup /\ [][NextGroup]_vars

YieldedItems == Concat([k \in 1..Len(slices) |-> Items(slices[k])])

\* C1: the slices yielded so far are non-empty, contiguous and
\* non-overlapping, their concatenation is the input up to idx_first and the
\* whole input once next has returned None; an empty input yields no slice
\* and there are never more slices than elements.
GroupsPartitionInput ==
    /\ \A k \in 1..Len(slices) :
           /\ 0 <= slices[k].lo
           /\ slices[k].lo < slices[k].hi
           /\ slices[k].hi <= Len(data)
    /\ slices # <<>> => slices[1].lo = 0
    /\ \A k \in 1..(Len(slices) - 1) : slices[k + 1].lo = slices[k].hi
    /\ YieldedItems = SubSeq(data, 1, idx_first)
    /\ exhausted => YieldedItems = data
    /\ Len(slices) <= Len(data)
    /\ data = <<>> => slices = <<>>

GroupsPartitionWitness ==
    /\ exhausted
    /\ Len(data) = 3
    /\ Len(slices) = 2
    /\ slices[1].hi - slices[1].lo = 2

\* the elements a pair of adjacent slices meets in
FirstOf(k) == data[slices[k].lo + 1]
LastOf(k) == data[slices[k].hi]

\* every element behind the first of a slice satisfies compare(element, first)
WithinSlice ==
    \A k \in 1..Len(slices) :
        \A i \in (slices[k].lo + 2)..slices[k].hi :
            <<data[i], FirstOf(k)>> \in compare

Transitive(r) ==
    \A x, y, z \in Elems : (<<x, y>> \in r /\ <<y, z>> \in r) => <<x, z>> \in r

\* C2 as stated: sameGroup is false between the last element of a slice and
\* the first element of the next one (in one order of the arguments at
\* least), and the elements of a slice satisfy sameGroup against its first.
BoundaryAgainstLast ==
    /\ \A k \in 1..(Len(slices) - 1) :
           \/ <<FirstOf(k + 1), LastOf(k)>> \notin compare
           \/ <<LastOf(k), FirstOf(k + 1)>> \notin compare
    /\ WithinSlice

\* C2 as amended: sameGroup(first of the later slice, first of the earlier
\* slice) is false, every element behind the first of a slice satisfies
\* sameGroup(element, first), and under a transitive sameGroup
\* sameGroup(first of the later slice, last of the earlier slice) is false.
BoundaryAgainstFirst ==
    /\ \A k \in 1..(Len(slices) - 1) :
           /\ <<FirstOf(k + 1), FirstOf(k)>> \notin compare
           /\ Transitive(compare) => <<FirstOf(k + 1), LastOf(k)>> \notin compare
    /\ WithinSlice

BoundaryWitness ==
    /\ exhausted
    /\ Len(slices) = 2
    /\ slices[1].hi - slices[1].lo = 2
    /\ <<FirstOf(2), LastOf(1)>> \in compare
    /\ <<FirstOf(2), FirstOf(1)>> \notin compare

-----------------------------------------------------------------------------
(* group_photo_files_impl on every short list of classified files          *)

\* /a/1.cr2, /a/1.jpg, /a/4.CR2 and /a/b/4.JPG
PhotoPaths == { <<<<"a">>, <<"1", ".", "c", "r", "2">>>>,
                <<<<"a">>, <<"1", ".", "j", "p", "g">>>>,
                <<<<"a">>, <<"4", ".", "C", "R", "2">>>>,
                <<<<"a">>, <<"b">>, <<"4", ".", "J", "P", "G">>>> }

ClassifiedFiles ==
    {File(p, d) : p \in PhotoPaths, d \in {None} \cup {Some(q) : q \in PhotoPaths}}

InitPhoto ==
    /\ files \in SeqsUpTo(ClassifiedFiles, MaxFiles)
    /\ photos = None
    /\ IdleG /\ IdleN /\ IdleC /\ IdleA /\ IdleX

NextPhoto == GroupPhotoFilesImpl

SpecPhoto == InitPhoto /\ [][NextPhoto]_vars

SourcePaths(fs) == {fs[i].path : i \in {j \in 1..Len(fs) : fs[j].derived_from = None}}

DistinctPaths(fs) == \A i, j \in 1..Len(fs) : i # j => fs[i].path # fs[j].path

\* a derived file names a path that is no source of the input
MissingSource(fs) ==
    \E i \in 1..Len(fs) :
        /\ fs[i].derived_from # None
        /\ fs[i].derived_from[1] \notin SourcePaths(fs)

\* the paths of the files derived from src, in the order of the input
RECURSIVE DerivedOf(_, _)
DerivedOf(fs, src) ==
    IF fs = <<>> THEN <<>>
    ELSE (IF Head(fs).derived_from = Some(src) THEN <<Head(fs).path>> ELSE <<>>)
         \o DerivedOf(Tail(fs), src)

\* C3: on distinct paths whose derived_from all name a source, the result has
\* exactly one Photo per source file, strictly ascending by source path, each
\* with exactly the files derived from it in input order (none: empty).
OnePhotoPerSourceSorted ==
    (photos # None /\ DistinctPaths(files) /\ ~MissingSource(files)) =>
        /\ photos.tag = "Ok"
        /\ LET r == photos.val
           IN  /\ Len(r) = Cardinality(SourcePaths(files))
               /\ {r[i].source : i \in 1..Len(r)} = SourcePaths(files)
               /\ \A i, j \in 1..Len(r) : i # j => r[i].source # r[j].source
               /\ \A i \in 1..(Len(r) - 1) :
                      PathCmp(r[i].source, r[i + 1].source) = "Less"
               /\ \A i \in 1..Len(r) :
                      r[i].derived = DerivedOf(files, r[i].source)

\* /a/b/4.JPG and /a/4.CR2 are sources given in descending order, and
\* /a/1.jpg is derived from the former
OnePhotoPerSourceWitness ==
    /\ photos # None
    /\ photos.tag = "Ok"
    /\ DistinctPaths(files)
    /\ Len(files) = 3
    /\ Len(photos.val) = 2
    /\ files[1].derived_from = None
    /\ files[2].derived_from = None
    /\ PathCmp(files[1].path, files[2].path) = "Greater"
    /\ photos.val[2].derived # <<>>
    /\ photos.val[1].derived = <<>>

\* C4: a derived file whose derived_from names no source of the input makes
\* the grouping fail with an error value returned to the caller, not with an
\* abort of the process.
MissingSourceIsReturned ==
    (photos # None /\ MissingSource(files)) => photos.tag = "Err"

-----------------------------------------------------------------------------
(* create_move_commands on every small Photo                               *)

\* the paths of test_create_move_commands, /a/1.CR2, /a/1.cr2.xmp,
\* /a/1_v2.CR2.xmp and /a/1.jpg, then /b/1.JPG and /a/.. (no file name)
PlanPaths == { <<<<"a">>, <<"1", ".", "C", "R", "2">>>>,
               <<<<"a">>, <<"1", ".", "c", "r", "2", ".", "x", "m", "p">>>>,
               <<<<"a">>, <<"1", "_", "v", "2", ".", "C", "R", "2", ".", "x", "m", "p">>>>,
               <<<<"a">>, <<"1", ".", "j", "p", "g">>>>,
               <<<<"b">>, <<"1", ".", "J", "P", "G">>>>,
               <<<<"a">>, ParentDir>> }

PlanStems == { <<"x">>, <<"0", "0", "0", "0", "_", "n", "o", "-", "d", "a", "t", "e">> }

PlanDirs == { <<<<"t", "m", "p">>>>, <<<<"a">>, <<"g", "r", "o", "u", "p", "e", "d">>>> }

InitPlan ==
    /\ \E src \in PlanPaths, der \in SeqsUpTo(PlanPaths, MaxDerived) :
           photo = Some([source |-> src, derived |-> der])
    /\ new_stem \in PlanStems
    /\ out_dir \in PlanDirs
    /\ plan = None
    /\ IdleG /\ IdleP /\ IdleN /\ IdleA /\ IdleX

NextPlan == CreateMoveCommands

SpecPlan == InitPlan /\ [][NextPlan]_vars

HasFileName(p) == p # <<>> /\ p[Len(p)] # ParentDir

DirectlyInside(p, dir) ==
    /\ Len(p) = Len(dir) + 1
    /\ SubSeq(p, 1, Len(dir)) = dir

\* C5: for a Photo with n derived files (all paths having a file name) the
\* plan is Ok and has 1 + 2n commands: Rename(source, newSource), then for
\* the k-th derived file Rename(derived[k], d) directly followed by
\* AdjustRef(d, newSource), d being that Rename's destination and newSource
\* the first Rename's; every destination is directly inside out_dir.
PlanIsRenameThenPairs ==
    (plan # None /\ HasFileName(photo[1].source)
       /\ \A k \in 1..Len(photo[1].derived) : HasFileName(photo[1].derived[k])) =>
        /\ plan[1].tag = "Ok"
        /\ LET c == plan[1].val
               n == Len(photo[1].derived)
           IN  /\ Len(c) = 1 + 2 * n
               /\ c[1].op = "Rename"
               /\ c[1].a = photo[1].source
               /\ DirectlyInside(c[1].b, out_dir)
               /\ \A k \in 1..n :
                      /\ c[2 * k].op = "Rename"
                      /\ c[2 * k].a = photo[1].derived[k]
                      /\ DirectlyInside(c[2 * k].b, out_dir)
                      /\ c[2 * k + 1].op = "AdjustRef"
                      /\ c[2 * k + 1].a = c[2 * k].b
                      /\ c[2 * k + 1].b = c[1].b

\* the Photo of test_create_move_commands, without its second derived file
PlanWitness ==
    /\ plan # None
    /\ plan[1].tag = "Ok"
    /\ photo[1].source = <<<<"a">>, <<"1", ".", "C", "R", "2">>>>
    /\ photo[1].derived = << <<<<"a">>, <<"1", ".", "c", "r", "2", ".", "x", "m", "p">>>>,
                              <<<<"a">>, <<"1", ".", "j", "p", "g">>>> >>
    /\ new_stem = <<"x">>
    /\ plan[1].val[3] = AdjustRef(<<<<"t", "m", "p">>, <<"x", ".", "c", "r", "2", ".", "x", "m", "p">>>>,
                                  <<<<"t", "m", "p">>, <<"x", ".", "c", "r", "2">>>>)

-----------------------------------------------------------------------------
(* group_files_by_date and run on every small directory                    *)

\* 1.cr2, 1.JPG, 1.jpg, 1.b.jpg, 1.cr2.xmp, 2.mov, 3.jpeg and n.txt
EntryNames == { <<"1", ".", "c", "r", "2">>,
                <<"1", ".", "J", "P", "G">>,
                <<"1", ".", "j", "p", "g">>,
                <<"1", ".", "b", ".", "j", "p", "g">>,
                <<"1", ".", "c", "r", "2", ".", "x", "m", "p">>,
                <<"2", ".", "m", "o", "v">>,
                <<"3", ".", "j", "p", "e", "g">>,
                <<"n", ".", "t", "x", "t">>,
                <<"n">> }

\* the names a DerivedFrom tag of the model holds
TagNames == { <<"1", ".", "c", "r", "2">>, <<"1", ".", "j", "p", "g">> }

\* two times on one day and one on the next
Times == { <<1, 0>>, <<1, 1>>, <<2, 0>> }

from_dir == << <<"p">> >>

\* what the metadata of a file holds: a DerivedFrom tag or a capture time or
\* neither (the capture time of a file with a DerivedFrom tag is never read,
\* nor is the metadata of a file that classify_files_impl filters out)
FileMetadata ==
    {[tag |-> None, taken |-> t] : t \in {None} \cup {Some(x) : x \in Times}}
    \cup {[tag |-> Some(n), taken |-> None] : n \in TagNames}

InitAll ==
    /\ \E entries \in {e \in SUBSET EntryNames : Cardinality(e) <= MaxEntries} :
         \E meta \in [{n \in entries : is_media(join(from_dir, n))}
                           -> FileMetadata] :
             in_dir = Directory(from_dir, entries,
                                [n \in entries |-> IF n \in DOMAIN meta
                                                   THEN meta[n].tag
                                                   ELSE None],
                                [n \in entries |-> IF n \in DOMAIN meta
                                                   THEN meta[n].taken
                                                   ELSE None])
    /\ out_dir = join(from_dir, <<"g", "r", "o", "u", "p", "e", "d">>)
    /\ dated = <<>> /\ cmds = <<>> /\ status = "start" /\ pos = 0
    /\ photo = None /\ new_stem = <<>> /\ plan = None
    /\ IdleG /\ IdleP /\ IdleN /\ IdleX

NextAll == GroupFilesByDate \/ RunCommands

SpecAll == InitAll /\ [][NextAll]_vars

\* group_files_by_date has returned a plan
Planned == status \in {"planned", "done", "assertion failed"}

NameOf(path) == path[Len(path)]

\* the source of an input file: the file itself, or the file its tag names
SourceOf(path) ==
    IF in_dir.tag[NameOf(path)] = None THEN path
    ELSE join(from_dir, in_dir.tag[NameOf(path)][1])

\* the group key of an input file: the day its source was taken, or no-date
KeyOf(path) ==
    LET taken == in_dir.taken[NameOf(SourceOf(path))]
    IN  IF taken = None THEN no_date ELSE format_date(taken[1][1])

Dirs == {i \in 1..Len(cmds) : cmds[i].op = "CreateDirectory"}
Renames == {i \in 1..Len(cmds) : cmds[i].op = "Rename"}
AdjustRefs == {i \in 1..Len(cmds) : cmds[i].op = "AdjustRef"}
SourceRenames == {i \in Renames : in_dir.tag[NameOf(cmds[i].a)] = None}

\* the index of the last CreateDirectory before command i (0: none)
DirBefore(i) ==
    IF \E j \in Dirs : j < i
    THEN CHOOSE j \in Dirs : j < i /\ \A k \in Dirs : k < i => k <= j
    ELSE 0

\* C7: in a returned plan every group key present among the photos has
\* exactly one CreateDirectory(out_dir/key), there is no other
\* CreateDirectory, and every Rename (with the AdjustRef behind it) of a
\* photo stands in the run that follows the CreateDirectory of its key; so
\* the undated photos form one no-date group.
OneDirectoryPerKey ==
    Planned =>
        /\ \A i \in Renames :
               Cardinality({j \in Dirs : cmds[j].a = join(out_dir, KeyOf(cmds[i].a))}) = 1
        /\ \A j \in Dirs : \E i \in Renames : cmds[j].a = join(out_dir, KeyOf(cmds[i].a))
        /\ \A i \in Renames :
               /\ DirBefore(i) # 0
               /\ cmds[DirBefore(i)].a = join(out_dir, KeyOf(cmds[i].a))
        /\ \A i \in AdjustRefs :
               /\ (i - 1) \in Renames
               /\ cmds[i].a = cmds[i - 1].b

\* three sources whose names are in the order undated, dated, undated
OneDirectoryPerKeyWitness ==
    /\ Planned
    /\ Cardinality(SourceRenames) = 3
    /\ Cardinality(Dirs) = 2
    /\ \E i, j, k \in SourceRenames :
           /\ PathCmp(cmds[i].a, cmds[j].a) = "Less"
           /\ PathCmp(cmds[j].a, cmds[k].a) = "Less"
           /\ KeyOf(cmds[i].a) = no_date
           /\ KeyOf(cmds[j].a) # no_date
           /\ KeyOf(cmds[k].a) = no_date

TakenOf(path) == in_dir.taken[NameOf(path)]

\* C8: in a returned plan the no-date directory comes before every dated
\* one and the dated ones come in strictly ascending order of their date;
\* the photos come undated first, then in non-decreasing capture time, and
\* photos of equal time (or both undated) in ascending order of their source.
GroupsAndPhotosAscending ==
    Planned =>
        /\ \A i, j \in Dirs : i < j =>
               /\ cmds[j].a # join(out_dir, no_date)
               /\ cmds[i].a # join(out_dir, no_date) =>
                      \E d1, d2 \in {t[1] : t \in Times} :
                          /\ cmds[i].a = join(out_dir, format_date(d1))
                          /\ cmds[j].a = join(out_dir, format_date(d2))
                          /\ d1 < d2
        /\ \A i, j \in SourceRenames : i < j =>
               LET t1 == TakenOf(cmds[i].a)
                   t2 == TakenOf(cmds[j].a)
               IN  /\ t2 = None => t1 = None
                   /\ (t1 # None /\ t2 # None) =>
                          \/ t1[1][1] < t2[1][1]
                          \/ t1[1][1] = t2[1][1] /\ t1[1][2] <= t2[1][2]
                   /\ t1 = t2 => PathCmp(cmds[i].a, cmds[j].a) = "Less"

\* an undated photo and two photos of one day, the later one first by name
GroupsAndPhotosWitness ==
    /\ Planned
    /\ Cardinality(SourceRenames) = 3
    /\ \E i, j, k \in SourceRenames :
           /\ i < j /\ j < k
           /\ TakenOf(cmds[i].a) = None
           /\ TakenOf(cmds[j].a) = Some(<<1, 0>>)
           /\ TakenOf(cmds[k].a) = Some(<<1, 1>>)
           /\ PathCmp(cmds[k].a, cmds[j].a) = "Less"
           /\ PathCmp(cmds[j].a, cmds[i].a) = "Less"

\* the part of a name from its first "." on, in lower case
LowerTail(name) ==
    IF dots(name) = {} THEN <<>>
    ELSE LET d == CHOOSE i \in dots(name) : \A j \in dots(name) : i <= j
         IN  [i \in 1..(Len(name) - d + 1) |-> LowerChar(name[d + i - 1])]

\* the position (from 0) of the photo renamed by command i within its group
PositionInGroup(i) == Cardinality({j \in SourceRenames : DirBefore(i) < j /\ j < i})

\* C9: the source of the photo at position i of its group is renamed to
\* out_dir/groupName/F, F being the four-digit i, "_", groupName and the
\* lowercased part of the source name from its first "." on.
SourceNamedByPosition ==
    Planned =>
        \A i \in SourceRenames :
            cmds[i].b = join(join(out_dir, KeyOf(cmds[i].a)),
                             stem_of(PositionInGroup(i), KeyOf(cmds[i].a))
                             \o LowerTail(NameOf(cmds[i].a)))

\* C10: the two paths of every AdjustRef of a returned plan differ in their
\* last component only, so that the assertions of run never fail.
AdjustRefNamesSiblings ==
    /\ status # "assertion failed"
    /\ Planned =>
           \A i \in AdjustRefs :
               /\ Len(common_prefix(cmds[i].a, cmds[i].b).suffix1) = 1
               /\ Len(common_prefix(cmds[i].a, cmds[i].b).suffix2) = 1

\* C11: planning is deterministic: the plan that was returned is the outcome
\* of group_files_by_date for every order in which the HashMap of
\* group_photo_files_impl enumerates its Photos.
PlanSameForEveryMapOrder ==
    status = "planned" =>
        \A r \in group_files_by_date(in_dir, out_dir) : r.outcome = Ok(cmds)

\* three Photos (six orders of the map), two of them undated, so that the
\* stable sort by date leaves them in the order of the Photo vector
PlanSameWitness ==
    /\ status = "planned"
    /\ Cardinality(SourceRenames) = 3
    /\ Cardinality({i \in SourceRenames : TakenOf(cmds[i].a) = None}) = 2

\* C13: in a returned plan no two Rename commands have the same destination,
\* the files of the input directory being pairwise distinct.
RenameDestinationsDistinct ==
    Planned =>
        \A i \in Renames : \A j \in Renames :
            i # j => cmds[i].b # cmds[j].b

\* the extensions the claim counts as recognized
RecognizedExtensions ==
    { <<"c", "r", "2">>, <<"j", "p", "g">>, <<"j", "p", "e", "g">>,
      <<"m", "o", "v">>, <<"x", "m", "p">> }

\* the name ends, after its last dot (which is not its first character), in
\* one of the recognized extensions written in any case
Recognized(name) ==
    \E d \in 2..Len(name) :
        /\ name[d] = "."
        /\ \A i \in (d + 1)..Len(name) : name[i] # "."
        /\ [i \in 1..(Len(name) - d) |-> LowerChar(name[d + i])]
               \in RecognizedExtensions

\* C14: in a returned plan every file of the input directory with a
\* recognized extension is the source of exactly one Rename, and a file with
\* another extension or with none is named by no command.
EveryMediaFileRenamedOnce ==
    Planned =>
        \A n \in in_dir.entries :
            LET path == join(from_dir, n)
            IN  IF Recognized(n)
                THEN Cardinality({i \in Renames : cmds[i].a = path}) = 1
                ELSE \A i \in 1..Len(cmds) :
                         cmds[i].a # path /\ cmds[i].b # path

\* a plan for a directory with a file of another extension, a file without
\* extension and a file whose recognized extension is in upper case
EveryMediaFileWitness ==
    /\ Planned
    /\ {<<"n", ".", "t", "x", "t">>, <<"n">>, <<"1", ".", "J", "P", "G">>}
           \subseteq in_dir.entries
    /\ \E i \in Renames :
           cmds[i].a = join(from_dir, <<"1", ".", "J", "P", "G">>)

-----------------------------------------------------------------------------
(* common_prefix on every pair of short paths                              *)

\* Path::components yields the root only first, never an inner "." and
\* ".." as it stands; the names of the other components are Normal
ComponentNames == {<<"a">>, <<"b">>, <<".", ".">>}
RootDir == <<"/">>
TestPaths ==
    LET relative == SeqsUpTo(ComponentNames, MaxDepth)
    IN  relative \cup {<<RootDir>> \o r : r \in relative}

InitPrefix ==
    /\ p1 \in TestPaths /\ p2 \in TestPaths
    /\ common = None
    /\ IdleG /\ IdleP /\ IdleN /\ IdleC /\ IdleA

NextPrefix == CommonPrefix

SpecPrefix == InitPrefix /\ [][NextPrefix]_vars

IsCommonLead(n) ==
    /\ n <= Len(p1) /\ n <= Len(p2)
    /\ SubSeq(p1, 1, n) = SubSeq(p2, 1, n)

\* C12: common_prefix(a, b) splits both paths at the same place, prefix
\* followed by suffix1 being a and prefix followed by suffix2 being b; two
\* non-empty suffixes start with different components; and no longer
\* sequence of components leads both paths.
PrefixSplitsBothPaths ==
    common # None =>
        LET c == common[1]
        IN  /\ c.prefix \o c.suffix1 = p1
            /\ c.prefix \o c.suffix2 = p2
            /\ (c.suffix1 # <<>> /\ c.suffix2 # <<>>)
                    => c.suffix1[1] # c.suffix2[1]
            /\ IsCommonLead(Len(c.prefix))
            /\ \A n \in 0..Len(p1) : IsCommonLead(n) => n <= Len(c.prefix)

\* a root and a directory in common, then two different components
PrefixSplitsWitness ==
    /\ common # None
    /\ Len(common[1].prefix) = 2
    /\ common[1].suffix1 # <<>> /\ common[1].suffix2 # <<>>
    /\ Len(common[1].suffix1) # Len(common[1].suffix2)

-----------------------------------------------------------------------------
(* make_new_filename on every short name                                   *)

NameChars == {"a", "B", "."}
StemChars == {"a", "B"}

\* the inputs of test_make_new_filename, with my_file shortened to ab
TestNames == { <<"a", "b", ".", "J", "P", "G">>,
               <<"a", "b", ".", "C", "R", "2", ".", "J", "P", "G">>,
               <<"a", "b", ".", "c", "r", "2", ".", "J", "P", "G">>,
               <<"a", "b">> }
TestOld == <<"a", "b">>
TestNew == <<"0", "0", "0", "0">>

InitName ==
    /\ \/ /\ file_name \in SeqsUpTo(NameChars, MaxName)
          /\ old \in SeqsUpTo(StemChars, 2)
          /\ new \in {<<>>, <<"x">>, <<"a", "a">>, <<"B">>}
       \/ /\ file_name \in TestNames
          /\ old = TestOld
          /\ new = TestNew
    /\ new_name = None
    /\ IdleG /\ IdleP /\ IdleC /\ IdleA /\ IdleX

NextName == MakeNewFilename

SpecName == InitName /\ [][NextName]_vars

\* the places (from 1) at which pat occurs in s
Occurrences(s, pat) ==
    {i \in 1..(Len(s) - Len(pat) + 1) : SubSeq(s, i, i + Len(pat) - 1) = pat}

Least(S) == CHOOSE i \in S : \A j \in S : i <= j

\* s with every occurrence of pat, taken from the left, replaced by to
RECURSIVE EveryOccurrenceReplaced(_, _, _)
EveryOccurrenceReplaced(s, pat, to) ==
    IF Occurrences(s, pat) = {} THEN s
    ELSE LET i == Least(Occurrences(s, pat))
         IN  SubSeq(s, 1, i - 1) \o to
             \o EveryOccurrenceReplaced(SubSeq(s, i + Len(pat), Len(s)), pat, to)

Dots(s) == {i \in 1..Len(s) : s[i] = "."}

\* C6: the result is the part before the first "." with every occurrence of
\* oldStem replaced by newStem, followed by the part from the first "." on in
\* lower case; a name without "." is replaced in as a whole and not
\* lowercased; ab.CR2.JPG with ab -> 0000 gives 0000.cr2.jpg, ab gives 0000.
NewNameSplitsAtFirstDot ==
    (new_name # None /\ old # <<>>) =>
        /\ Dots(file_name) # {} =>
              LET d == Least(Dots(file_name))
              IN  new_name[1] =
                     EveryOccurrenceReplaced(SubSeq(file_name, 1, d - 1), old, new)
                     \o [i \in 1..(Len(file_name) - d + 1) |->
                            LowerChar(file_name[d + i - 1])]
        /\ Dots(file_name) = {} =>
              new_name[1] = EveryOccurrenceReplaced(file_name, old, new)
        /\ (file_name = <<"a", "b", ".", "C", "R", "2", ".", "J", "P", "G">>
              /\ old = TestOld /\ new = TestNew) =>
              new_name[1] = <<"0", "0", "0", "0", ".", "c", "r", "2", ".", "j", "p", "g">>
        /\ (file_name = <<"a", "b">> /\ old = TestOld /\ new = TestNew) =>
              new_name[1] = TestNew

NewNameWitness ==
    /\ new_name # None
    /\ file_name = <<"a", "b", ".", "C", "R", "2", ".", "J", "P", "G">>
    /\ old = TestOld
    /\ new = TestNew

=============================================================================
